---------------------------- MODULE Spec2Model ----------------------------
(***************************************************************************)
(* The line-wrapping iterator (src/src/util.rs) and the cursor / viewport  *)
(* state machine of the editor (src/src/editor.rs).                        *)
(*                                                                         *)
(* Text is a sequence of characters; the only line break in the model's    *)
(* alphabet is "\n".  The rope (crate ropey) is modelled by what the calls *)
(* made from util.rs return: a line includes its line break, the number of *)
(* lines is the number of line breaks plus one, get_line is None from      *)
(* len_lines on.                                                           *)
(*                                                                         *)
(* Arithmetic is checked, as in a build with overflow checks: an unsigned   *)
(* subtraction that goes below zero, an index outside a Vec and an         *)
(* insertion outside the rope panic, and a panic ends the program (the     *)
(* editor record keeps the state the turn of the loop found, and           *)
(* `panicked` names the place).  Painting (Editor::interface, the rows     *)
(* written by Editor::redraw) changes no field but `redraw`.               *)
(***************************************************************************)
EXTENDS Integers, Sequences, FiniteSets, TLC

VARIABLES
    editor,     \* struct Editor (editor.rs:78-92), plus `panicked` and
                \* `available_width`, the wrap width compute_virtual_lines
                \* handed to iter_virtual_lines last (None: never called it)
    event,      \* the event handled last by Editor::handle_event
    iter,       \* struct VirtualLineIterator (util.rs:71-76)
    collected,  \* the items iter has yielded so far, in order
    exhausted   \* iter.next() has returned None

vars == <<editor, event, iter, collected, exhausted>>

---------------------------------------------------------------------------
(* Bounds of the model *)

MaxTextLen == 5      \* longest text handed to the iterator on its own
MaxWrap == 3         \* widest wrap width handed to the iterator on its own

Min(a, b) == IF a <= b THEN a ELSE b
Max(a, b) == IF a >= b THEN a ELSE b

NL == "\n"
Chars == {"a", NL}

TextsUpTo(n) == UNION {[1..k -> Chars] : k \in 0..n}

\* spec.md section 8, example 5; the text of the wrapping example
HelloWorld == <<"h", "e", "l", "l", "o", NL, "w", "o", "r", "l", "d">>

---------------------------------------------------------------------------
(* ropey::Rope / RopeSlice, as used by util.rs *)

len_chars(rope) == Len(rope)

Breaks(rope) == {i \in 1..Len(rope) : rope[i] = NL}

len_lines(rope) == Cardinality(Breaks(rope)) + 1

\* char index of the first character of line line_nr (0-based)
line_to_char(rope, line_nr) ==
    IF line_nr = 0 THEN 0
    ELSE CHOOSE k \in Breaks(rope) :
            Cardinality({i \in Breaks(rope) : i <= k}) = line_nr

\* get_line(line_nr).len_chars(): the line with its line break
line_len_chars(rope, line_nr) ==
    (IF line_nr + 1 < len_lines(rope)
        THEN line_to_char(rope, line_nr + 1)
        ELSE len_chars(rope)) - line_to_char(rope, line_nr)

\* get_line(line_nr).is_some()
has_line(rope, line_nr) == line_nr < len_lines(rope)

\* Rope::insert_char(char_idx, ch), char_idx <= len_chars
insert_char(rope, char_idx, ch) ==
    SubSeq(rope, 1, char_idx) \o <<ch>> \o SubSeq(rope, char_idx + 1, Len(rope))

---------------------------------------------------------------------------
(* VirtualLine and VirtualLineIterator *)

VirtualLine_new(s, e, p, u) ==
    [start |-> s, end |-> e, parent_line |-> p, subline |-> u]

VirtualLine_len(vl) == vl.end - vl.start

VirtualLineIterator_new(rope, start, len) ==
    [len |-> len, rope |-> rope, line_offset |-> 0, line_nr |-> start]

None == <<>>
Some(v) == <<v>>

\* a plausible slip: the segment starts at the line's start, the offset forgotten
SegStartNoOffset(line_start, line_offset) == line_start

\* util.rs:95  let start = line_to_char(line_nr) + line_offset
SegStart(line_start, line_offset) == line_start + line_offset

\* util.rs:98  let len = self.len.min(subline_len)
SegLen(self_len, subline_len) == Min(self_len, subline_len)

\* VirtualLineIterator::next: the item (None or Some) and the iterator afterwards
RECURSIVE IterNext(_)
IterNext(self) ==
    IF has_line(self.rope, self.line_nr)
    THEN LET start == SegStart(line_to_char(self.rope, self.line_nr), self.line_offset)
             line_len == line_len_chars(self.rope, self.line_nr)
             subline_len == line_len - self.line_offset
             len == SegLen(self.len, subline_len)
             end == start + len
             subline == line_len # len /\ self.line_offset # 0
         IN  IF len = 0
             THEN IterNext([self EXCEPT !.line_nr = @ + 1, !.line_offset = 0])
             ELSE [item |-> Some(VirtualLine_new(start, end, self.line_nr, subline)),
                   self |-> [self EXCEPT !.line_offset = @ + len]]
    ELSE [item |-> None, self |-> self]

\* Iterator::collect::<Vec<_>>(): next() until None
RECURSIVE Collect(_)
Collect(self) ==
    LET r == IterNext(self)
    IN  IF r.item = None THEN <<>> ELSE r.item \o Collect(r.self)

\* RopeExt::iter_virtual_lines(start, len).collect()
iter_virtual_lines(rope, start, len) ==
    Collect(VirtualLineIterator_new(rope, start, len))

---------------------------------------------------------------------------
(* The iterator on its own: any text, any wrap width > 0, next() by next() *)

NoEditor == [panicked |-> "never built"]
NoEvent == [kind |-> "none"]

InitIter ==
    /\ \E rope \in TextsUpTo(MaxTextLen) \cup {HelloWorld}, len \in 1..MaxWrap :
          iter = VirtualLineIterator_new(rope, 0, len)
    /\ collected = <<>>
    /\ exhausted = FALSE
    /\ editor = NoEditor
    /\ event = NoEvent

\* one call of next() by the consumer
Iterate ==
    /\ ~exhausted
    /\ editor = NoEditor
    /\ LET r == IterNext(iter)
       IN  /\ iter' = r.self
           /\ collected' = collected \o r.item
           /\ exhausted' = (r.item = None)
    /\ UNCHANGED <<editor, event>>

NextIter == Iterate

SpecIter == InitIter /\ [][NextIter]_vars

---------------------------------------------------------------------------
(* struct Editor and its cursor operations (editor.rs) *)

LINE_NUMBER_WIDTH == 3

MaxBufLen == 3       \* longest buffer: no insertion once it holds this many characters
MaxWidth == 5        \* widest window
MaxHeight == 2       \* tallest window

\* the editor is opened on any file that fits the buffer bound
MaxFileLen == MaxBufLen
\* buf_cursor and cur_line can grow without limit in the code (cursor_down on the
\* bottom row adds to buf_cursor, cursor_up / cursor_down can count a logical line
\* twice); no event is read that would take them beyond these
MaxCursor == 2 * MaxBufLen
MaxCurLine == MaxBufLen + 1

Widths == (LINE_NUMBER_WIDTH + 1)..MaxWidth
Heights == 1..MaxHeight

\* Vec indexing is 0-based
At(vec, i) == vec[i + 1]
InRange(vec, i) == i >= 0 /\ i < Len(vec)

\* usize::saturating_sub, usize::abs_diff
SatSub(a, b) == IF a >= b THEN a - b ELSE 0
AbsDiff(a, b) == IF a >= b THEN a - b ELSE b - a

Panic(self, where) == [self EXCEPT !.panicked = where]
Panicked(self) == self.panicked # "none"

\* Editor::compute_virtual_lines
compute_virtual_lines(self) ==
    IF self.window.width < LINE_NUMBER_WIDTH
    THEN Panic(self, "compute_virtual_lines: width - LINE_NUMBER_WIDTH")
    ELSE LET available_width == self.window.width - LINE_NUMBER_WIDTH
         IN  [self EXCEPT !.virtual_lines =
                              iter_virtual_lines(self.buf, 0, available_width),
                          !.available_width = Some(available_width)]

\* Editor::new; the bindings are the Normal arm of handle_event below
Editor_new(window, buf) ==
    compute_virtual_lines(
        [window |-> window,
         mode |-> "Normal",
         buf |-> buf,
         scr_cursor |-> [x |-> 0, y |-> 0],
         buf_cursor |-> 0,
         desired_position |-> 0,
         redraw |-> FALSE,
         top_line |-> 0,
         cur_line |-> 0,
         cur_vline |-> 0,
         virtual_lines |-> <<>>,
         available_width |-> None,
         panicked |-> "none"])

\* a plausible slip: the column is not clamped to the line
CapColumnUnclamped(desired_position, vline_len) == desired_position

\* editor.rs:262-263  desired_position.min(len.saturating_sub(1))
CapColumn(desired_position, vline_len) == Min(desired_position, SatSub(vline_len, 1))

\* Editor::cap_cursor
cap_cursor(self) ==
    IF ~InRange(self.virtual_lines, self.cur_vline)
    THEN Panic(self, "cap_cursor: virtual_lines[cur_vline]")
    ELSE [self EXCEPT !.scr_cursor.y =
              CapColumn(self.desired_position,
                        VirtualLine_len(At(self.virtual_lines, self.cur_vline)))]

\* editor.rs:217-219 and 232-234: a virtual line that starts a logical line
CountLine(self) ==
    IF ~At(self.virtual_lines, self.cur_vline).subline
    THEN [self EXCEPT !.cur_line = @ + 1]
    ELSE self

\* editor.rs:215-220 and 230-235: to the next virtual line, if there is one
NextVline(self) ==
    IF self.cur_vline + 1 < Len(self.virtual_lines)
    THEN CountLine([self EXCEPT !.cur_vline = @ + 1])
    ELSE self

\* editor.rs:213-222: on the bottom row, scroll if lines remain below the window
ScrollDown(self) ==
    IF self.top_line + 1 < Len(self.virtual_lines) - self.window.height + 1
    THEN [NextVline([self EXCEPT !.top_line = @ + 1]) EXCEPT !.redraw = TRUE]
    ELSE self

\* editor.rs:224-227: buf_cursor += buf_cursor.abs_diff(start of the virtual line)
AddStartDiff(self) ==
    IF Panicked(self) THEN self
    ELSE [self EXCEPT !.buf_cursor =
             @ + AbsDiff(@, At(self.virtual_lines, self.cur_vline).start)]

\* editor.rs:238-239 and 256-257: buf_cursor = start of the virtual line + column
SetBufCursor(self) ==
    IF Panicked(self) THEN self
    ELSE [self EXCEPT !.buf_cursor =
             At(self.virtual_lines, self.cur_vline).start + self.scr_cursor.y]

\* Editor::cursor_down
cursor_down(self) ==
    IF self.window.height < 1
    THEN Panic(self, "cursor_down: height - 1")
    ELSE IF self.scr_cursor.x + 1 > self.window.height - 1
    THEN IF Len(self.virtual_lines) < self.window.height
         THEN Panic(self, "cursor_down: virtual_lines.len() - height")
         ELSE AddStartDiff(cap_cursor(ScrollDown(self)))
    ELSE SetBufCursor(cap_cursor(NextVline([self EXCEPT !.scr_cursor.x = @ + 1])))

\* editor.rs:246-248: a virtual line that starts a logical line, going up
UncountLine(self) ==
    IF ~At(self.virtual_lines, self.cur_vline).subline
    THEN [self EXCEPT !.cur_line = SatSub(@, 1)]
    ELSE self

\* editor.rs:250-254: one row up, or scroll up on the top row
RowUp(self) ==
    IF self.scr_cursor.x >= 1
    THEN [self EXCEPT !.scr_cursor.x = @ - 1]
    ELSE [self EXCEPT !.top_line = SatSub(@, 1)]

\* Editor::cursor_up
cursor_up(self) ==
    IF self.cur_vline >= 1
    THEN IF ~InRange(self.virtual_lines, self.cur_vline - 1)
         THEN Panic(self, "cursor_up: virtual_lines[cur_vline]")
         ELSE SetBufCursor(cap_cursor(RowUp(UncountLine(
                  [self EXCEPT !.cur_vline = @ - 1]))))
    ELSE self

\* editor.rs:186  self.desired_position = y, once cursor_down has returned
SetDesired(self, y) ==
    IF Panicked(self) THEN self ELSE [self EXCEPT !.desired_position = y]

\* Editor::cursor_right
cursor_right(self) ==
    IF ~InRange(self.virtual_lines, self.cur_vline)
    THEN Panic(self, "cursor_right: virtual_lines[cur_vline]")
    ELSE IF /\ self.scr_cursor.y + 1 <= self.window.width
            /\ self.scr_cursor.y + 1 <=
                   VirtualLine_len(At(self.virtual_lines, self.cur_vline))
    THEN [self EXCEPT !.scr_cursor.y = @ + 1,
                      !.buf_cursor = At(self.virtual_lines, self.cur_vline).start
                                         + self.scr_cursor.y + 1,
                      !.desired_position = self.scr_cursor.y + 1]
    ELSE IF /\ InRange(self.virtual_lines, self.cur_vline + 1)
            /\ At(self.virtual_lines, self.cur_vline + 1).subline
    THEN SetDesired(cursor_down([self EXCEPT !.scr_cursor.y = 0]),
                    self.scr_cursor.y + 1)
    ELSE self

\* Editor::cursor_left
cursor_left(self) ==
    IF self.scr_cursor.y > 0
    THEN IF self.buf_cursor < 1
         THEN Panic(self, "cursor_left: buf_cursor - 1")
         ELSE [self EXCEPT !.scr_cursor.y = @ - 1,
                           !.buf_cursor = @ - 1,
                           !.desired_position = self.scr_cursor.y - 1]
    ELSE IF ~InRange(self.virtual_lines, self.cur_vline)
    THEN Panic(self, "cursor_left: virtual_lines[cur_vline]")
    ELSE IF At(self.virtual_lines, self.cur_vline).subline
    THEN IF ~InRange(self.virtual_lines, self.cur_line)
         THEN Panic(self, "cursor_left: virtual_lines[cur_line]")
         ELSE IF self.buf_cursor < 1
         THEN Panic(self, "cursor_left: buf_cursor - 1")
         ELSE [self EXCEPT
                  !.scr_cursor.y =
                      SatSub(VirtualLine_len(At(self.virtual_lines, self.cur_line)), 1),
                  !.scr_cursor.x = SatSub(@, 1),
                  !.buf_cursor = @ - 1,
                  !.desired_position = SatSub(@, 1)]
    ELSE self

---------------------------------------------------------------------------
(* Events, Editor::handle_event and the loop of Editor::drive *)

\* the keys bound in Normal mode (editor.rs:120-153), all with no modifier
NormalKeys == {"i", "d", "a", "w", "s", "r", "q"}

\* the characters typed in Insert mode
TypedChars == {"a"}

KeyCodes == NormalKeys \cup TypedChars \cup {"Esc", "Enter"}

Key(code) == [kind |-> "Key", code |-> code]
Resize(width, height) == [kind |-> "Resize", width |-> width, height |-> height]
\* what is remembered of the event handled last
Seen(ev) == IF ev.kind = "Key" THEN ev ELSE [kind |-> ev.kind]
\* Mouse, Paste, FocusGained, FocusLost, and a key's Repeat or Release
Other == [kind |-> "Other"]

\* Rope::insert_char at buf_cursor, then compute_virtual_lines (editor.rs:391-392, 402-403)
InsertAndWrap(self, ch) ==
    IF self.buf_cursor < 0 \/ self.buf_cursor > len_chars(self.buf)
    THEN Panic(self, "insert_char: char_idx out of bounds")
    ELSE compute_virtual_lines(
             [self EXCEPT !.buf = insert_char(self.buf, self.buf_cursor, ch)])

\* the command bound to a key in Normal mode: the editor afterwards and the mode returned
Binding(self, code) ==
    CASE code = "i" -> [self |-> self, mode |-> "Insert"]
      [] code = "d" -> [self |-> cursor_right(self), mode |-> "Normal"]
      [] code = "a" -> [self |-> cursor_left(self), mode |-> "Normal"]
      [] code = "w" -> [self |-> cursor_up(self), mode |-> "Normal"]
      [] code = "s" -> [self |-> cursor_down(self), mode |-> "Normal"]
      [] code = "r" -> [self |-> [self EXCEPT !.redraw = TRUE], mode |-> "Normal"]
      [] code = "q" -> [self |-> self, mode |-> "Quit"]

\* a plausible slip: the resize also sends the cursor back to the origin
ResizeWindowHome(self, width, height) ==
    [self EXCEPT !.window.height = height, !.window.width = width, !.redraw = TRUE,
                 !.buf_cursor = 0, !.cur_vline = 0]

\* editor.rs:417-421  the Resize arm
ResizeWindow(self, width, height) ==
    [self EXCEPT !.window.height = height, !.window.width = width, !.redraw = TRUE]

\* editor.rs:394 and 405  self.redraw = true
MarkRedraw(self) == [self EXCEPT !.redraw = TRUE]

\* editor.rs:393 and 404: the cursor moves once the table is rebuilt
ThenDown(self) == IF Panicked(self) THEN self ELSE cursor_down(self)
ThenRight(self) == IF Panicked(self) THEN self ELSE cursor_right(self)

\* editor.rs:391-394  Enter in Insert mode
InsertEnter(self) == ThenDown(InsertAndWrap(self, NL))

\* editor.rs:396-405  a character in Insert mode
InsertChar(self, ch) == ThenRight(InsertAndWrap(self, ch))

\* Editor::handle_event: the editor afterwards and the mode returned
handle_event(self, ev) ==
    CASE ev.kind = "Key" /\ self.mode = "Normal" ->
            IF ev.code \in NormalKeys
            THEN Binding(self, ev.code)
            ELSE [self |-> self, mode |-> self.mode]
      [] ev.kind = "Key" /\ self.mode = "Insert" ->
            IF ev.code = "Esc"
            THEN [self |-> self, mode |-> "Normal"]
            ELSE IF ev.code = "Enter"
            THEN [self |-> MarkRedraw(InsertEnter(self)), mode |-> self.mode]
            ELSE [self |-> MarkRedraw(InsertChar(self, ev.code)), mode |-> self.mode]
      [] ev.kind = "Key" /\ self.mode = "Quit" ->
            [self |-> Panic(self, "handle_event: todo!()"), mode |-> self.mode]
      [] ev.kind = "Resize" ->
            [self |-> ResizeWindow(self, ev.width, ev.height), mode |-> self.mode]
      [] OTHER -> [self |-> self, mode |-> self.mode]

\* Editor::redraw: the rows are repainted and the flag is cleared
redraw(self) == [self EXCEPT !.redraw = FALSE]

\* editor.rs:336-340: the mode returned becomes the mode; redraw if the flag is set
AfterEvent(self) ==
    IF self.redraw THEN redraw(self) ELSE self

\* one turn of the loop of Editor::drive that reads event ev (editor.rs:335-340);
\* a panic leaves `before`, the editor as the turn found it, marked
Turn(before, r) ==
    IF Panicked(r.self) THEN Panic(before, r.self.panicked)
    ELSE AfterEvent([r.self EXCEPT !.mode = r.mode])

drive(self, ev) == Turn(self, handle_event(self, ev))

\* a plausible slip: the loop does not break on Mode::Quit
RunningPastQuit == editor.panicked = "none"

\* the loop goes on: no panic, and the mode is not Quit (editor.rs:342-346)
Running == editor.panicked = "none" /\ editor.mode # "Quit"

Init ==
    /\ \E buf \in TextsUpTo(MaxFileLen), width \in Widths, height \in Heights :
          editor = Editor_new([height |-> height, width |-> width], buf)
    /\ event = NoEvent
    /\ iter = VirtualLineIterator_new(<<>>, 0, 0)
    /\ collected = <<>>
    /\ exhausted = TRUE

Handle(ev) ==
    /\ Running
    /\ \E after \in {drive(editor, ev)} :
          /\ after.buf_cursor <= MaxCursor
          /\ after.cur_line <= MaxCurLine
          /\ editor' = after
    /\ event' = Seen(ev)
    /\ UNCHANGED <<iter, collected, exhausted>>

\* the keys pressed in a mode: in Insert mode the characters of TypedChars only
KeysIn(mode) ==
    IF mode = "Insert" THEN TypedChars \cup {"Esc", "Enter"} ELSE KeyCodes

\* a key press; typing is cut off at MaxBufLen characters
KeyPress ==
    \E code \in KeyCodes :
        /\ Running
        /\ code \in KeysIn(editor.mode)
        /\ (editor.mode = "Insert" /\ code # "Esc") => len_chars(editor.buf) < MaxBufLen
        /\ Handle(Key(code))

ResizeEvent == \E width \in Widths, height \in Heights : Handle(Resize(width, height))

OtherEvent == Handle(Other)

Next == KeyPress \/ ResizeEvent \/ OtherEvent

Spec == Init /\ [][Next]_vars

\* the editor under vertical movement and resizing only
CursorUpKey == Handle(Key("w"))
CursorDownKey == Handle(Key("s"))

NextScroll == CursorUpKey \/ CursorDownKey \/ ResizeEvent

SpecScroll == Init /\ [][NextScroll]_vars

\* the editor in a terminal of any width, the widths below LINE_NUMBER_WIDTH + 1
\* included, at startup and on resize
AnyWidth == 0..MaxWidth

InitNarrow ==
    /\ \E buf \in TextsUpTo(MaxFileLen), width \in AnyWidth, height \in Heights :
          editor = Editor_new([height |-> height, width |-> width], buf)
    /\ event = NoEvent
    /\ iter = VirtualLineIterator_new(<<>>, 0, 0)
    /\ collected = <<>>
    /\ exhausted = TRUE

ResizeAny == \E width \in AnyWidth, height \in Heights : Handle(Resize(width, height))

NextNarrow == KeyPress \/ ResizeAny \/ OtherEvent

SpecNarrow == InitNarrow /\ [][NextNarrow]_vars

\* the editor in Normal mode under the four movement keys and resizing, opened
\* on files long enough for a continuation line of two characters
MaxMoveLen == 4

InitMove ==
    /\ \E buf \in TextsUpTo(MaxMoveLen), width \in Widths, height \in Heights :
          editor = Editor_new([height |-> height, width |-> width], buf)
    /\ event = NoEvent
    /\ iter = VirtualLineIterator_new(<<>>, 0, 0)
    /\ collected = <<>>
    /\ exhausted = TRUE

CursorRightKey == Handle(Key("d"))
CursorLeftKey == Handle(Key("a"))

NextMove ==
    CursorUpKey \/ CursorDownKey \/ CursorRightKey \/ CursorLeftKey \/ ResizeEvent

SpecMove == InitMove /\ [][NextMove]_vars

---------------------------------------------------------------------------
(* Claims about the virtual line table *)

Wrap == iter.len
Table == collected

\* the entries of the table that belong to logical line n
SegsOf(n) == {i \in 1..Len(Table) : Table[i].parent_line = n}

CeilDiv(a, b) == (a + b - 1) \div b

\* a logical line's length without its line break
ContentLen(rope, n) ==
    LET l == line_len_chars(rope, n)
        s == line_to_char(rope, n)
    IN  IF l > 0 /\ rope[s + l] = NL THEN l - 1 ELSE l

\* C1: for every text and wrap width W > 0 the table is in logical-line
\* order and left to right, every entry has start <= end and at most W
\* characters, the entries of a logical line are adjacent, the first starts
\* at the line's start, each next one where the previous ended, and once the
\* iterator is exhausted they end at the line's end (the line as the rope
\* delimits it): no gap, no overlap.
C1_Partition ==
    /\ \A i \in 1..Len(Table) :
         /\ Table[i].start <= Table[i].end
         /\ Table[i].end - Table[i].start <= Wrap
         /\ has_line(iter.rope, Table[i].parent_line)
         /\ Table[i].start =
              IF i > 1 /\ Table[i - 1].parent_line = Table[i].parent_line
              THEN Table[i - 1].end
              ELSE line_to_char(iter.rope, Table[i].parent_line)
    /\ \A i, j \in 1..Len(Table) :
         i < j => /\ Table[i].parent_line <= Table[j].parent_line
                  /\ Table[i].end <= Table[j].start
    /\ exhausted =>
         \A n \in 0..(len_lines(iter.rope) - 1) :
            LET last == line_to_char(iter.rope, n) + line_len_chars(iter.rope, n)
            IN  IF SegsOf(n) = {}
                THEN line_len_chars(iter.rope, n) = 0
                ELSE \E i \in SegsOf(n) :
                        /\ Table[i].end = last
                        /\ \A j \in SegsOf(n) : j <= i

\* a finished table with a wrapped line followed by another logical line
C1_Witness ==
    /\ exhausted
    /\ \E i, j \in 1..Len(Table) :
          /\ Table[i].subline
          /\ Table[i].parent_line = 0
          /\ Table[j].parent_line = 1

\* C2: every logical line of L characters (line break not counted) yields
\* max(1, ceil(L / W)) virtual lines, a line of length 0 exactly one
\* zero-length entry that is not a continuation.
C2_SegmentCount ==
    exhausted =>
        \A n \in 0..(len_lines(iter.rope) - 1) :
            LET L == ContentLen(iter.rope, n)
            IN  /\ Cardinality(SegsOf(n)) = Max(1, CeilDiv(L, Wrap))
                /\ L = 0 => \A i \in SegsOf(n) :
                               /\ Table[i].start = Table[i].end
                               /\ ~Table[i].subline

\* C3: hello<newline>world at wrap width 3 yields the four virtual lines
\* (0,3,0,false), (3,5,0,true), (6,9,1,false), (9,11,1,true).
C3_HelloWorld ==
    (iter.rope = HelloWorld /\ Wrap = 3 /\ exhausted) =>
        Table = << VirtualLine_new(0, 3, 0, FALSE), VirtualLine_new(3, 5, 0, TRUE),
                   VirtualLine_new(6, 9, 1, FALSE), VirtualLine_new(9, 11, 1, TRUE) >>

---------------------------------------------------------------------------
(* Claims about the cursor and the viewport *)

Completed == editor.panicked = "none"

\* the virtual line the cursor is on, where cur_vline is an index of the table
OnLine(self) == InRange(self.virtual_lines, self.cur_vline)
CurVline(self) == At(self.virtual_lines, self.cur_vline)

\* C4: after any sequence of cursor_up, cursor_down and Resize events,
\* top_line <= cur_vline < top_line + window.height whenever the table is
\* not empty.
C4_Scrolling ==
    (Completed /\ Len(editor.virtual_lines) > 0) =>
        /\ editor.top_line <= editor.cur_vline
        /\ editor.cur_vline < editor.top_line + editor.window.height

\* the column the claim expects: min(desired_position, len - 1), 0 for an empty line
StickyColumn(self) ==
    Min(self.desired_position,
        IF OnLine(self) THEN SatSub(VirtualLine_len(CurVline(self)), 1) ELSE 0)

Vertical == {Key("w"), Key("s")}

C6_EditResync ==
    [][(event' = Key("a") /\ editor.mode = "Insert" /\ editor'.panicked = "none") =>
          /\ OnLine(editor')
          /\ CurVline(editor').start <= editor.buf_cursor + 1
          /\ editor.buf_cursor + 1 <= CurVline(editor').end]_vars

CursorFields(self) ==
    <<self.buf_cursor, self.cur_vline, self.cur_line, self.scr_cursor.x,
      self.scr_cursor.y, self.desired_position, self.top_line>>

\* C7: cursor_left with buf_cursor = 0 and cursor_right with buf_cursor at
\* the end of the buffer return with every cursor field unchanged (stated
\* here for a cursor that is on a virtual line of the table).
C7_BoundaryNoOp ==
    [][(/\ editor.mode = "Normal"
        /\ OnLine(editor)
        /\ \/ event' = Key("a") /\ editor.buf_cursor = 0
           \/ event' = Key("d") /\ editor.buf_cursor = len_chars(editor.buf)) =>
          /\ editor'.panicked = "none"
          /\ CursorFields(editor') = CursorFields(editor)]_vars

MovementPanics ==
    {"cursor_right: virtual_lines[cur_vline]", "cursor_left: virtual_lines[cur_vline]",
     "cursor_left: virtual_lines[cur_line]", "cursor_left: buf_cursor - 1",
     "cursor_up: virtual_lines[cur_vline]", "cap_cursor: virtual_lines[cur_vline]",
     "cursor_down: virtual_lines.len() - height", "cursor_down: height - 1"}

\* C8: with height >= 1 and width > 3, no cursor movement indexes
\* virtual_lines out of range or takes an unsigned subtraction below zero.
C8_MovementCannotFail == editor.panicked \notin MovementPanics

\* C9: after every completed movement or edit, buf_cursor is the start of the
\* cursor's virtual line plus the column scr_cursor.y.
C9_OffsetColumn ==
    (/\ Completed
     /\ OnLine(editor)
     /\ event.kind = "Key"
     /\ \/ event.code \in {"d", "a", "w", "s"}
        \/ event.code = "Enter" /\ editor.mode = "Insert") =>
        editor.buf_cursor = CurVline(editor).start + editor.scr_cursor.y

\* C10: after every handled event the table is the wrapping of the buffer at
\* the wrap width of the window, window.width - LINE_NUMBER_WIDTH.
C10_TableFresh ==
    Completed =>
        editor.virtual_lines =
            iter_virtual_lines(editor.buf, 0, editor.window.width - LINE_NUMBER_WIDTH)

---------------------------------------------------------------------------
(* Claims about the loop, the table's index and the window *)

\* C11: Quit is terminal: no event is handled once the mode is Quit, so the
\* Mode::Quit arm of handle_event is never entered and the mode never leaves
\* Quit; the mode becomes Quit only by the key q handled in Normal mode.
C11_QuitTerminal ==
    /\ [][/\ editor.mode # "Quit"
          /\ editor'.mode = "Quit" => (event' = Key("q") /\ editor.mode = "Normal")]_vars
    /\ [](editor.panicked # "handle_event: todo!()")

\* the loop has stopped on q
C11_Witness == editor.mode = "Quit" /\ event = Key("q") /\ Completed

\* C12: in every reachable state, whatever the file (the empty file too),
\* cur_vline is an index of the table: 0 <= cur_vline < virtual_lines.len().
C12_ValidIndex == Completed => InRange(editor.virtual_lines, editor.cur_vline)

\* C13: in every reachable state, also right after a Resize to a shorter
\* window, the cursor's row satisfies 0 <= scr_cursor.x < window.height.
C13_RowInWindow ==
    Completed => (editor.scr_cursor.x >= 0 /\ editor.scr_cursor.x < editor.window.height)

\* C14: an insertion in Insert mode at buffer offset p (a character or
\* Enter) ends with buf_cursor = p + 1, wherever the cursor is.
C14_InsertAdvances ==
    [][(/\ editor.mode = "Insert"
        /\ event' \in {Key("a"), Key("Enter")}
        /\ editor'.panicked = "none") =>
          editor'.buf_cursor = editor.buf_cursor + 1]_vars

---------------------------------------------------------------------------
(* Claims about horizontal movement across a wrap boundary *)

\* C15: cursor_left at column 0 of a continuation virtual line v moves to
\* the end of entry v - 1: the cursor is on virtual line v - 1, scr_cursor.y
\* is len(virtual_lines[v - 1]) - 1 (0 if empty), buf_cursor is one less and
\* desired_position is max(old - 1, 0).
C15_LeftAcrossWrap ==
    [][(/\ editor.mode = "Normal"
        /\ event' = Key("a")
        /\ OnLine(editor)
        /\ editor.scr_cursor.y = 0
        /\ CurVline(editor).subline) =>
          /\ editor'.panicked = "none"
          /\ editor'.cur_vline = editor.cur_vline - 1
          /\ editor'.scr_cursor.y =
                SatSub(VirtualLine_len(At(editor.virtual_lines, editor.cur_vline - 1)), 1)
          /\ editor'.buf_cursor = editor.buf_cursor - 1
          /\ editor'.desired_position = SatSub(editor.desired_position, 1)]_vars

\* cursor_right cannot advance inside the current virtual line
AtLineEnd(self) == self.scr_cursor.y + 1 > VirtualLine_len(CurVline(self))

\* the next entry of the table is a continuation
NextIsContinuation(self) ==
    /\ InRange(self.virtual_lines, self.cur_vline + 1)
    /\ At(self.virtual_lines, self.cur_vline + 1).subline

\* C16: when cursor_right cannot advance inside the current virtual line
\* (column c) and the next entry is a continuation, cur_vline grows by one,
\* scr_cursor.y is 0, buf_cursor is the start of the new virtual line and
\* desired_position is c + 1; when the next entry is absent or is not a
\* continuation, no cursor field changes.
C16_RightAcrossWrap ==
    [][(/\ editor.mode = "Normal"
        /\ event' = Key("d")
        /\ OnLine(editor)
        /\ AtLineEnd(editor)) =>
          /\ editor'.panicked = "none"
          /\ IF NextIsContinuation(editor)
             THEN /\ editor'.cur_vline = editor.cur_vline + 1
                  /\ editor'.scr_cursor.y = 0
                  /\ editor'.buf_cursor = CurVline(editor').start
                  /\ editor'.desired_position = editor.scr_cursor.y + 1
             ELSE CursorFields(editor') = CursorFields(editor)]_vars

---------------------------------------------------------------------------
(* Claims about the coordinate spaces of the cursor *)

\* C17: in every reachable state, after any movements and Insert-mode
\* edits, cur_line is the parent_line of the virtual line the cursor is on.
C17_CurLineIsParent ==
    (Completed /\ OnLine(editor)) => editor.cur_line = CurVline(editor).parent_line

\* C18: in every reachable state the cursor's row is the row its virtual
\* line is drawn on: scr_cursor.x = cur_vline - top_line.
C18_RowIsVline ==
    Completed => editor.scr_cursor.x = editor.cur_vline - editor.top_line

\* C19: a Resize event leaves buf_cursor, cur_vline, cur_line,
\* desired_position, the buffer and the mode as they were, in Normal and in
\* Insert mode.
C19_ResizeKeepsCursor ==
    [][event'.kind = "Resize" =>
          /\ editor'.panicked = "none"
          /\ editor'.buf_cursor = editor.buf_cursor
          /\ editor'.cur_vline = editor.cur_vline
          /\ editor'.cur_line = editor.cur_line
          /\ editor'.desired_position = editor.desired_position
          /\ editor'.buf = editor.buf
          /\ editor'.mode = editor.mode]_vars

\* a resize handled in Insert mode with the cursor away from the origin
C19_Witness ==
    /\ event.kind = "Resize"
    /\ editor.mode = "Insert"
    /\ editor.buf_cursor > 0
    /\ editor.cur_vline > 0
    /\ editor.redraw = FALSE

---------------------------------------------------------------------------
(* Claims about the wrap width *)

\* C20: compute_virtual_lines never calls iter_virtual_lines with width 0,
\* nor computes a width from window.width < LINE_NUMBER_WIDTH: not at
\* startup, not after an edit, not after a Resize to 3 columns or fewer.
C20_ZeroWidthRejected ==
    /\ editor.panicked # "compute_virtual_lines: width - LINE_NUMBER_WIDTH"
    /\ editor.panicked = "none" => editor.available_width # Some(0)

---------------------------------------------------------------------------
(* Claims about repainting *)

\* C21: whenever handling an event changes top_line (cursor_down scrolling
\* down, cursor_up scrolling up), handle_event returns with the redraw flag
\* set, so the rows are repainted in the same turn of the loop.
C21_RepaintOnScroll ==
    [][(/\ event'.kind = "Key"
        /\ editor'.panicked = "none"
        /\ editor'.top_line # editor.top_line) =>
          handle_event(editor, event').self.redraw]_vars

===========================================================================
